---- MODULE Spec2Model ----
(***************************************************************************)
(* Project sharing of lovable-lab-tools: the projects and project_access   *)
(* tables with their row level security policies, and the client functions *)
(* that read and write them (addProjectAccess, removeProjectAccess,        *)
(* saveProject, updateProjectTools, handleDelete, getProjectAccess,        *)
(* getAllAccessibleProjects).                                              *)
(*                                                                         *)
(* Every client call runs as the authenticated principal auth.uid() and    *)
(* every statement it sends is filtered by the policies: a SELECT, UPDATE  *)
(* or DELETE only touches the rows its USING clause admits (and reports no *)
(* error for the others), an INSERT that fails its WITH CHECK clause is an *)
(* error.                                                                  *)
(***************************************************************************)
EXTENDS Integers, FiniteSets, Sequences, TLC

\* ------------------------------------------------------------ bounds
NumPrincipals == 3
MaxProjects == 1
NumCalls == 2
\* notification calls made in one behaviour
MaxDispatches == 1
\* recipients the environment fails in one call (insert, email)
MaxFailures == 1
\* rows the notifications table holds at the start of a listing behaviour:
\* enough for one recipient to have more active rows than a listing returns
MaxBacklog == 23

Principals == 1..NumPrincipals
ProjectIds == 1..MaxProjects
Calls == 1..NumCalls

\* ------------------------------------------------------------ values
NULL == "null"
AccessLevel == {"view", "edit"}
\* is_public BOOLEAN DEFAULT FALSE, nullable
BoolOrNull == {"true", "false", NULL}
ToolSets == {{}, {"t1"}}

\* profiles.username of a principal; one more contact has no profile
UsernameOf(u) == 100 + u
Contacts == {UsernameOf(u) : u \in Principals} \cup {100}
profiles == {[id |-> u, username |-> UsernameOf(u)] : u \in Principals}

VARIABLES
  projects,        \* rows of table projects
  nextProjectId,   \* ids handed out so far (uuid_generate_v4 never repeats)
  project_access,  \* rows of table project_access
  last,            \* the last client call and how it ended
  calls,           \* addProjectAccess calls in flight (concurrent execution)
  user_notification_preferences,  \* rows of the table of that name
  notifications,   \* rows of table notifications, in the order of created_at
  resp,            \* the last notification call, its response and its effects
  selectedProjectForSharing,  \* Projects page: id of the project, 0 for null
  isSharingDialogOpen,        \* Projects page: the sharing dialog is shown
  projectAccessList,          \* Projects page: the rows the dialog lists
  loadingAccess,              \* Projects page: "Loading..." replaces the list
  requests,        \* Projects page: calls awaited, in the order they were made
  generatorType,   \* GeneratorTools: the prop type
  idea, prd, sql, kb,         \* GeneratorTools: the text states
  isGenerating,    \* GeneratorTools: the flag that disables the button
  timers           \* GeneratorTools: pending setTimeout callbacks

\* the variables of the notification subsystem; the project handlers leave them
\* alone (the trigger after_project_access_insert posts to process-notification,
\* which writes nothing, see processNotification)
notifyVars == <<user_notification_preferences, notifications, resp>>

\* the state of the Projects page and of GeneratorTools; the service calls and
\* the edge functions do not touch it
pageVars == <<selectedProjectForSharing, isSharingDialogOpen,
              projectAccessList, loadingAccess, requests>>
toolVars == <<generatorType, idea, prd, sql, kb, isGenerating, timers>>
uiVars == <<pageVars, toolVars>>

vars == <<projects, nextProjectId, project_access, last, calls,
          user_notification_preferences, notifications, resp,
          selectedProjectForSharing, isSharingDialogOpen, projectAccessList,
          loadingAccess, requests,
          generatorType, idea, prd, sql, kb, isGenerating, timers>>

\* ------------------------------------------------------------ helpers
RECURSIVE TrimStart(_)
TrimStart(s) == IF s # <<>> /\ Head(s) = " " THEN TrimStart(Tail(s)) ELSE s

RECURSIVE TrimEnd(_)
TrimEnd(s) ==
  IF s # <<>> /\ s[Len(s)] = " " THEN TrimEnd(SubSeq(s, 1, Len(s) - 1)) ELSE s

\* String.prototype.trim
Trim(s) == TrimEnd(TrimStart(s))

ProjectExists(p) == \E r \in projects : r.id = p
\* the rows the statement "WHERE id = p AND user_id = u" finds
IsOwner(u, p) == \E r \in projects : r.id = p /\ r.user_id = u

RowsIn(rows, p, u) == {a \in rows : a.project_id = p /\ a.user_id = u}
RowsFor(p, u) == RowsIn(project_access, p, u)

\* project_access.id DEFAULT uuid_generate_v4(): an id no row of the table has
NewAccessId(p, u) ==
  LET used == {a.id[3] : a \in RowsFor(p, u)}
      k == CHOOSE n \in 1..(Cardinality(used) + 1) : n \notin used
  IN <<p, u, k>>

\* ------------------------------------------------------------ policies
\* "Users can view their own projects"
ViewOwnProjects(u, r) == u = r.user_id

\* "Users can view projects shared with them"
ViewSharedProjects(u, r) ==
  \E a \in project_access : a.project_id = r.id /\ a.user_id = u

\* the public policy written as "is_public IS NOT FALSE"
ViewPublicProjects_notFalse(u, r) == r.is_public # "false"

\* "Users can view public projects": is_public = true is not true for NULL
ViewPublicProjects(u, r) == r.is_public = "true"

ProjectsSelect(u, r) ==
  ViewOwnProjects(u, r) \/ ViewSharedProjects(u, r) \/ ViewPublicProjects(u, r)

\* "Users can insert their own projects"
ProjectsInsert(u, r) == u = r.user_id

\* the owner policy written as for profiles, "auth.uid() = id"
UpdateOwnProjects_byId(u, r) == u = r.id

\* "Users can update their own projects"
UpdateOwnProjects(u, r) == u = r.user_id

\* the edit policy without its condition on access_level
UpdateSharedProjects_anyLevel(u, r) ==
  \E a \in project_access : a.project_id = r.id /\ a.user_id = u

\* "Users with edit access can update shared projects"
UpdateSharedProjects(u, r) ==
  \E a \in project_access :
    a.project_id = r.id /\ a.user_id = u /\ a.access_level = "edit"

\* USING of an UPDATE: the old row; WITH CHECK: the new row
ProjectsUpdate(u, old, new) ==
  /\ UpdateOwnProjects(u, old) \/ UpdateSharedProjects(u, old)
  /\ UpdateOwnProjects(u, new) \/ UpdateSharedProjects(u, new)

\* "Users can delete their own projects"
ProjectsDelete(u, r) == u = r.user_id

\* the manage policy also admitting the principal a row names
ManageAccess_orSelf(u, a) ==
  \/ \E r \in projects : r.id = a.project_id /\ r.user_id = u
  \/ a.user_id = u

\* "Project owners can manage access" FOR ALL: USING, and WITH CHECK by default
ManageAccess(u, a) ==
  \E r \in projects : r.id = a.project_id /\ r.user_id = u

\* "Users can view their own access" FOR SELECT
ViewOwnAccess(u, a) == a.user_id = u

AccessSelect(u, a) == ManageAccess(u, a) \/ ViewOwnAccess(u, a)

\* the check whose 'view' case accepts only the level 'view'
has_project_access_viewOnly(p, u, required) ==
  LET is_owner == \E r \in projects : r.id = p /\ r.user_id = u
      found == RowsFor(p, u)
  IN IF is_owner THEN TRUE
     ELSE IF found = {} THEN FALSE
     ELSE LET access_level == (CHOOSE a \in found : TRUE).access_level
          IN CASE required = "view" -> access_level = "view"
               [] required = "edit" -> access_level \in {"edit", "admin"}
               [] required = "admin" -> access_level = "admin"
               [] OTHER -> FALSE

\* has_project_access(p_project_id, p_user_id, p_required_access)
has_project_access(p, u, required) ==
  LET is_owner == \E r \in projects : r.id = p /\ r.user_id = u
      found == RowsFor(p, u)
  IN IF is_owner THEN TRUE
     ELSE IF found = {} THEN FALSE
     ELSE LET access_level == (CHOOSE a \in found : TRUE).access_level
          IN CASE required = "view" -> access_level \in {"view", "edit", "admin"}
               [] required = "edit" -> access_level \in {"edit", "admin"}
               [] required = "admin" -> access_level = "admin"
               [] OTHER -> FALSE

\* plpgsql.variable_conflict, which the migration leaves at its default
variable_conflict == "error"

\* user_has_project_access(project_id, user_id, min_access_level) as PL/pgSQL
\* runs it under the setting mode. Its parameters carry the names of the
\* columns they are compared with: "user_id = user_id" in the query on
\* projects, "project_id = project_id AND user_id = user_id" in the query on
\* project_access. By default such a reference is refused as ambiguous when
\* the query runs; under use_variable and use_column both sides name the
\* same thing and the comparison holds on every row.
\* The result: whether the call raised, and the boolean it returned if not.
user_has_project_access_under(mode, p, u, min_access_level) ==
  IF mode = "error" THEN [raised |-> TRUE, returned |-> FALSE]
  ELSE IF \E r \in projects : r.id = p
  THEN [raised |-> FALSE, returned |-> TRUE]
  ELSE [raised |-> FALSE,
        returned |->
          \E a \in project_access :
            CASE min_access_level = "viewer" ->
                   a.access_level \in {"viewer", "editor", "admin"}
              [] min_access_level = "editor" ->
                   a.access_level \in {"editor", "admin"}
              [] min_access_level = "admin" -> a.access_level = "admin"
              [] OTHER -> FALSE]

user_has_project_access(p, u, min_access_level) ==
  user_has_project_access_under(variable_conflict, p, u, min_access_level)

\* check_project_access(p_project_id, p_user_id)
check_project_access(p, u) ==
  \E r \in projects :
    /\ r.id = p
    /\ \/ r.user_id = u
       \/ r.is_public = "true"
       \/ \E a \in project_access : a.project_id = p /\ a.user_id = u

\* openSharingDialog: the sharing dialog only opens on a project of the user
openSharingDialog(u, p) == \E r \in projects : r.id = p /\ r.user_id = u

\* ------------------------------------------------------------ reads
\* getProjectById: the row (as a set of one row), or no row when the policies
\* hide it or it is gone (PGRST116, returned as null)
getProjectById(u, p) == {r \in projects : r.id = p /\ ProjectsSelect(u, r)}

\* getProjectAccess: the project_access rows of a project the caller may see
getProjectAccess(u, p) ==
  {a \in project_access : a.project_id = p /\ AccessSelect(u, a)}

\* the embedded resource projects:project_id (*): null when hidden or missing
EmbeddedProject(u, a) ==
  {r \in projects : r.id = a.project_id /\ ProjectsSelect(u, r)}

\* getAllAccessibleProjects: every visible project tagged is_shared = false,
\* then the projects of the caller's own project_access rows, is_shared = true
getAllAccessibleProjects(u) ==
  LET owned == {[project |-> r, is_shared |-> FALSE, access_level |-> NULL] :
                  r \in {x \in projects : ProjectsSelect(u, x)}}
      mine == {a \in project_access : a.user_id = u /\ AccessSelect(u, a)}
      shared == {[project |-> CHOOSE r \in EmbeddedProject(u, a) : TRUE,
                  is_shared |-> TRUE, access_level |-> a.access_level] :
                  a \in {x \in mine : EmbeddedProject(u, x) # {}}}
  IN owned \cup shared

\* fetchUserProjects: the visible projects with user_id = the caller tagged
\* is_shared = false, then the projects of the caller's own project_access rows
fetchUserProjects(u) ==
  LET owned == {[project |-> r, is_shared |-> FALSE, access_level |-> NULL] :
                  r \in {x \in projects : ProjectsSelect(u, x) /\ x.user_id = u}}
      mine == {a \in project_access : a.user_id = u /\ AccessSelect(u, a)}
      shared == {[project |-> CHOOSE r \in EmbeddedProject(u, a) : TRUE,
                  is_shared |-> TRUE, access_level |-> a.access_level] :
                  a \in {x \in mine : EmbeddedProject(u, x) # {}}}
  IN owned \cup shared

\* ------------------------------------------------------------ ghost record
\* the last client call: its arguments, how it ended ("ok", "noop": no error
\* and no row touched, or the error), the updated flag addProjectAccess returns
\* and the number of project_access rows it wrote or removed; posted holds the
\* requests the triggers of its statements sent to process-notification
Last(op, u, p, contact, lvl, outcome, updated, n) ==
  [op |-> op, caller |-> u, project |-> p, contact |-> contact, level |-> lvl,
   outcome |-> outcome, updated |-> updated, n |-> n, posted |-> << >>]

NoCall == [pc |-> "idle", caller |-> 0, project |-> 0, user |-> 0,
           level |-> NULL, existing |-> {}, outcome |-> NULL, updated |-> FALSE,
           posted |-> << >>]

\* ------------------------------------------------------------ notifications
\* Names are sequences of words and "_", so that type.replace('_', '') is
\* computed and not assumed (no word below is a concatenation of others).
project_shared == <<"project", "_", "shared">>
comment_added == <<"comment", "_", "added">>
team_invitation == <<"team", "_", "invitation">>
system_announcement == <<"system", "_", "announcement">>
NotificationType ==
  {project_shared, comment_added, team_invitation, system_announcement}

\* the columns of user_notification_preferences that hold a toggle
email_notifications == <<"email", "_", "notifications">>
in_app_notifications == <<"in", "_", "app", "_", "notifications">>
project_sharing == <<"project", "_", "sharing">>
comments == <<"comments">>
team_invitations == <<"team", "_", "invitations">>
system_announcements == <<"system", "_", "announcements">>
PrefKeys == {email_notifications, in_app_notifications, project_sharing,
             comments, team_invitations, system_announcements}

\* the "type" values a request body can carry: the four types, a type outside
\* them, one that is spelled like a preference column, and none (<< >>)
InputTypes == NotificationType \cup {<<"other">>, comments, << >>}

\* String.prototype.replace(t, ''): the first occurrence of t is removed
ReplaceFirst(s, t) ==
  IF \E i \in 1..Len(s) : s[i] = t
  THEN LET i == CHOOSE k \in 1..Len(s) :
                  s[k] = t /\ \A j \in 1..(k - 1) : s[j] # t
       IN SubSeq(s, 1, i - 1) \o SubSeq(s, i + 1, Len(s))
  ELSE s

\* obj[key] used as a condition: a missing property is undefined, hence falsy
Truthy(obj, key) == IF key \in DOMAIN obj THEN obj[key] ELSE FALSE

\* the object used when the recipient has no row (every column's DEFAULT too)
DefaultPrefs == [k \in PrefKeys |-> TRUE]

\* the rows the table admits within the bounds: every toggle on, or one off
PrefObjects == {DefaultPrefs} \cup
               {[DefaultPrefs EXCEPT ![k] = FALSE] : k \in PrefKeys}
PrefStores ==
  {{}} \cup {{[user_id |-> u, toggles |-> o]} : u \in Principals,
                                                 o \in PrefObjects}

\* .from('user_notification_preferences').select('*').eq('user_id', userId)
PrefRows(userId) == {r \in user_notification_preferences : r.user_id = userId}

\* the fallback being an object without properties: preferences || {}
ResolvePrefs_noDefaults(userId) ==
  IF PrefRows(userId) = {} THEN << >>
  ELSE (CHOOSE r \in PrefRows(userId) : TRUE).toggles

\* preferences || { ...all true }
ResolvePrefs(userId) ==
  IF PrefRows(userId) = {} THEN DefaultPrefs
  ELSE (CHOOSE r \in PrefRows(userId) : TRUE).toggles

\* a row of notifications; its position in the table is its created_at order
Notification(userId, type) ==
  [user_id |-> userId, type |-> type, read |-> FALSE, deleted_at |-> NULL]

\* .limit(20) of fetchNotifications
ListLimit == 20

\* a request body: the fields the handlers destructure, 0, NULL and << >>
\* standing for a field that is absent (undefined)
Event(type, userId, projectId, actor, level) ==
  [type |-> type, userId |-> userId, projectId |-> projectId,
   actor |-> actor, level |-> level]
NoEvent == Event(<< >>, 0, 0, 0, NULL)

\* the last notification call: the function, the caller whose token the
\* request carries, the request body, the response (HTTP status, success,
\* skipped, error, notified) and what the call did: indexes of the rows it
\* inserted, recipients whose insert failed, recipients the email sender was
\* called for and failed for, the preferences object it resolved, the
\* notification id passed and the listing returned (calls of the client hook),
\* and how many dispatch calls were made so far
NoResp ==
  [fn |-> "none", caller |-> 0, event |-> NoEvent, status |-> 0,
   success |-> NULL, skipped |-> FALSE, error |-> NULL, notified |-> 0,
   inserted |-> {}, insertFailed |-> {}, emailed |-> {}, emailFailed |-> {},
   userPrefs |-> << >>, id |-> 0, listing |-> << >>, n |-> 0]
Called(fn, caller, ev) ==
  [NoResp EXCEPT !.fn = fn, !.caller = caller, !.event = ev, !.n = resp.n + 1]
Hooked(fn, user, id) ==
  [NoResp EXCEPT !.fn = fn, !.caller = user, !.id = id, !.n = resp.n]

\* the sharing dialog as the page mounts it (useState initial values)
InitPage ==
  /\ selectedProjectForSharing = 0
  /\ isSharingDialogOpen = FALSE
  /\ projectAccessList = {}
  /\ loadingAccess = FALSE
  /\ requests = << >>

\* GeneratorTools as it mounts, for a value of its prop
InitTool(type) ==
  /\ generatorType = type
  /\ idea = << >> /\ prd = << >> /\ sql = << >> /\ kb = << >>
  /\ isGenerating = FALSE
  /\ timers = << >>

Init ==
  /\ InitPage /\ InitTool("prd")
  /\ projects = {}
  /\ nextProjectId = 1
  /\ project_access = {}
  /\ last = Last("none", 0, 0, 0, NULL, NULL, FALSE, 0)
  /\ calls = [i \in Calls |-> NoCall]
  /\ user_notification_preferences = {}
  /\ notifications = << >>
  /\ resp = NoResp

\* ------------------------------------------------------------ projects
\* the rows "UPDATE projects SET ... WHERE id = p" changes for caller u
UpdatableProjects(u, p, new(_)) ==
  {r \in projects : r.id = p /\ ProjectsUpdate(u, r, new(r))}

\* saveProject(project): p = 0 is a project without id (a new project)
saveProject(u, p, name, description, tools) ==
  /\ UNCHANGED <<project_access, calls>>
  /\ UNCHANGED notifyVars
  /\ UNCHANGED uiVars
  /\ IF Trim(name) = <<>> \/ Trim(description) = <<>>
     THEN /\ last' = Last("saveProject", u, p, 0, NULL, "invalid", FALSE, 0)
          /\ UNCHANGED <<projects, nextProjectId>>
     ELSE IF p # 0
     THEN LET new(r) == [r EXCEPT !.name = name, !.description = description,
                                  !.tools = tools]
              hit == UpdatableProjects(u, p, new)
          IN /\ projects' = (projects \ hit) \cup {new(r) : r \in hit}
             /\ last' = Last("saveProject", u, p, 0, NULL,
                             IF hit = {} THEN "no_rows" ELSE "ok", FALSE, 0)
             /\ UNCHANGED nextProjectId
     ELSE LET row == [id |-> nextProjectId, user_id |-> u, name |-> name,
                      description |-> description, tools |-> tools,
                      is_public |-> "false"]
          IN /\ nextProjectId <= MaxProjects
             /\ ProjectsInsert(u, row)
             /\ projects' = projects \cup {row}
             /\ nextProjectId' = nextProjectId + 1
             /\ last' = Last("saveProject", u, row.id, 0, NULL, "ok", FALSE, 0)

\* updateProjectTools(projectId, toolIds): no row is read back, so an update
\* that the policies filter away ends without an error
updateProjectTools(u, p, tools) ==
  /\ LET new(r) == [r EXCEPT !.tools = tools]
         hit == UpdatableProjects(u, p, new)
     IN /\ projects' = (projects \ hit) \cup {new(r) : r \in hit}
        /\ last' = Last("updateProjectTools", u, p, 0, NULL,
                        IF hit = {} THEN "noop" ELSE "ok", FALSE, 0)
  /\ UNCHANGED <<nextProjectId, project_access, calls>>
  /\ UNCHANGED notifyVars
  /\ UNCHANGED uiVars

\* an update of the is_public column through the table's API
setProjectPublic(u, p, flag) ==
  /\ LET new(r) == [r EXCEPT !.is_public = flag]
         hit == UpdatableProjects(u, p, new)
     IN /\ hit # {}
        /\ projects' = (projects \ hit) \cup {new(r) : r \in hit}
        /\ last' = Last("setProjectPublic", u, p, 0, NULL, "ok", FALSE, 0)
  /\ UNCHANGED <<nextProjectId, project_access, calls>>
  /\ UNCHANGED notifyVars
  /\ UNCHANGED uiVars

\* the foreign key without ON DELETE CASCADE enforcement
CascadeDelete_none(gone) == project_access

\* project_access.project_id REFERENCES projects(id) ON DELETE CASCADE
CascadeDelete(gone) == {a \in project_access : a.project_id \notin gone}

\* handleDelete(id): DELETE FROM projects WHERE id = p
handleDelete(u, p) ==
  /\ LET hit == {r \in projects : r.id = p /\ ProjectsDelete(u, r)}
     IN /\ projects' = projects \ hit
        /\ project_access' = CascadeDelete({r.id : r \in hit})
        /\ last' = Last("handleDelete", u, p, 0, NULL,
                        IF hit = {} THEN "noop" ELSE "ok", FALSE,
                        Cardinality(project_access \ project_access'))
  /\ UNCHANGED <<nextProjectId, calls>>
  /\ UNCHANGED notifyVars
  /\ UNCHANGED uiVars

\* ------------------------------------------------------------ project_access
\* the profile lookup falling back to the first profile when none matches
LookupUser_anyProfile(contact) ==
  LET m == {pr.id : pr \in {x \in profiles : x.username = contact}}
  IN IF m # {} THEN m
     ELSE {CHOOSE id \in {pr.id : pr \in profiles} :
             \A pr \in profiles : id <= pr.id}

\* profiles.select("id").eq("username", userEmail).single()
LookupUser(contact) == {pr.id : pr \in {x \in profiles : x.username = contact}}

\* the lookup filtering on the caller's id instead of the grantee's
ExistingAccess_byCaller(u, p, g) == {a \in RowsFor(p, u) : AccessSelect(u, a)}

\* project_access.select("*").eq("project_id", p).eq("user_id", g)
ExistingAccess(u, p, g) == {a \in RowsFor(p, g) : AccessSelect(u, a)}

\* the table without its unique constraint
UniqueProjectUser_off(row) == TRUE

\* UNIQUE(project_id, user_id)
UniqueProjectUser(row) ==
  \A a \in project_access :
    ~(a.project_id = row.project_id /\ a.user_id = row.user_id)

\* trigger_project_shared_notification(): the body posted to
\* process-notification for the inserted row (sharedById is NEW.created_by, a
\* column the insert of addProjectAccess does not set)
trigger_project_shared_notification(new_row) ==
  Event(project_shared, new_row.user_id, new_row.project_id, 0, NULL)

\* the trigger created AFTER INSERT OR UPDATE
after_project_access_insert_orUpdate(op, written) ==
  IF written = {} THEN << >>
  ELSE <<trigger_project_shared_notification(CHOOSE a \in written : TRUE)>>

\* after_project_access_insert: AFTER INSERT ON project_access FOR EACH ROW,
\* for a statement op that wrote the rows written (at most one row here)
after_project_access_insert(op, written) ==
  IF op # "INSERT" \/ written = {} THEN << >>
  ELSE <<trigger_project_shared_notification(CHOOSE a \in written : TRUE)>>

\* the update-or-insert of addProjectAccess, given the rows its lookup saw:
\* the rows of the table afterwards, how the call ends, what it returns and
\* what the trigger posted
WriteAccess(u, p, g, level, existing) ==
  IF existing # {}
  THEN LET id == (CHOOSE a \in existing : TRUE).id
           hit == {a \in project_access : a.id = id /\ ManageAccess(u, a)}
           new == {[a EXCEPT !.access_level = level] : a \in hit}
       IN [rows |-> (project_access \ hit) \cup new,
           outcome |-> IF hit = {} THEN "noop" ELSE "ok",
           updated |-> TRUE, n |-> Cardinality(hit),
           posted |-> after_project_access_insert("UPDATE", new)]
  ELSE LET row == [id |-> NewAccessId(p, g), project_id |-> p, user_id |-> g,
                   access_level |-> level]
       IN IF ~ManageAccess(u, row)
          THEN [rows |-> project_access, outcome |-> "rls", updated |-> FALSE,
                n |-> 0, posted |-> after_project_access_insert("INSERT", {})]
          ELSE IF ~UniqueProjectUser(row)
          THEN [rows |-> project_access, outcome |-> "unique",
                updated |-> FALSE, n |-> 0,
                posted |-> after_project_access_insert("INSERT", {})]
          ELSE [rows |-> project_access \cup {row}, outcome |-> "ok",
                updated |-> FALSE, n |-> 1,
                posted |-> after_project_access_insert("INSERT", {row})]

\* addProjectAccess(projectId, userEmail, accessLevel), run without interruption
addProjectAccess(u, p, contact, level) ==
  /\ IF LookupUser(contact) = {}
     THEN /\ last' = Last("addProjectAccess", u, p, contact, level,
                          "user_not_found", FALSE, 0)
          /\ UNCHANGED project_access
     ELSE LET g == CHOOSE x \in LookupUser(contact) : TRUE
              w == WriteAccess(u, p, g, level, ExistingAccess(u, p, g))
          IN /\ project_access' = w.rows
             /\ last' = [Last("addProjectAccess", u, p, contact, level,
                              w.outcome, w.updated, w.n)
                           EXCEPT !.posted = w.posted]
  /\ UNCHANGED <<projects, nextProjectId, calls>>
  /\ UNCHANGED notifyVars
  /\ UNCHANGED uiVars

\* the delete run without the manage policy
removeProjectAccess_noPolicy(u, accessId) ==
  /\ LET hit == {a \in project_access : a.id = accessId}
     IN /\ project_access' = project_access \ hit
        /\ last' = Last("removeProjectAccess", u, accessId[1],
                        UsernameOf(accessId[2]), NULL,
                        IF hit = {} THEN "noop" ELSE "ok", FALSE,
                        Cardinality(hit))
  /\ UNCHANGED <<projects, nextProjectId, calls>>
  /\ UNCHANGED notifyVars
  /\ UNCHANGED uiVars

\* removeProjectAccess(accessId): DELETE FROM project_access WHERE id = accessId
removeProjectAccess(u, accessId) ==
  /\ LET hit == {a \in project_access : a.id = accessId /\ ManageAccess(u, a)}
     IN /\ project_access' = project_access \ hit
        /\ last' = Last("removeProjectAccess", u, accessId[1],
                        UsernameOf(accessId[2]), NULL,
                        IF hit = {} THEN "noop" ELSE "ok", FALSE,
                        Cardinality(hit))
  /\ UNCHANGED <<projects, nextProjectId, calls>>
  /\ UNCHANGED notifyVars
  /\ UNCHANGED uiVars

\* ------------------------------------------------------------ concurrent calls
\* addProjectAccess up to its second await: the profile and the rows it sees
addProjectAccess_lookup(i, u, p, contact, level) ==
  /\ calls[i].pc = "idle"
  /\ calls' = [calls EXCEPT ![i] =
       IF LookupUser(contact) = {}
       THEN [NoCall EXCEPT !.pc = "done", !.caller = u, !.project = p,
                           !.level = level, !.outcome = "user_not_found"]
       ELSE LET g == CHOOSE x \in LookupUser(contact) : TRUE
            IN [NoCall EXCEPT !.pc = "looked", !.caller = u, !.project = p,
                              !.user = g, !.level = level,
                              !.existing = ExistingAccess(u, p, g)]]
  /\ UNCHANGED <<projects, nextProjectId, project_access, last>>
  /\ UNCHANGED notifyVars
  /\ UNCHANGED uiVars

\* addProjectAccess from its lookup to its return or throw
addProjectAccess_write(i) ==
  /\ calls[i].pc = "looked"
  /\ LET c == calls[i]
         w == WriteAccess(c.caller, c.project, c.user, c.level, c.existing)
     IN /\ project_access' = w.rows
        /\ calls' = [calls EXCEPT ![i].pc = "done", ![i].outcome = w.outcome,
                                  ![i].updated = w.updated,
                                  ![i].posted = w.posted]
  /\ UNCHANGED <<projects, nextProjectId, last>>
  /\ UNCHANGED notifyVars
  /\ UNCHANGED uiVars

\* the caller (handleAddAccess) has taken the result: the call is over
addProjectAccess_return(i) ==
  /\ calls[i].pc = "done"
  /\ calls' = [calls EXCEPT ![i] = NoCall]
  /\ UNCHANGED <<projects, nextProjectId, project_access, last>>
  /\ UNCHANGED notifyVars
  /\ UNCHANGED uiVars

\* ------------------------------------------------------------ specifications
\* the name and description a save is called with
SaveInputs == {<<<<"a">>, <<"a">>>>, <<<<" ">>, <<"a">>>>, <<<<"a">>, <<>>>>}

\* ------------------------------------------------ notification dispatch
\* what the environment does to one call: the recipients whose INSERT into
\* notifications is refused or fails (the policies on notifications admit
\* SELECT and UPDATE only, so an INSERT succeeds only where the deployment
\* lets it) and the recipients the email service fails for. Lookups in
\* tables that are not modelled here (teams, comments) find their row.
FewOf(S) == {T \in SUBSET S : Cardinality(T) <= MaxFailures}
Envs == [insertFails : FewOf(Principals), emailFails : FewOf(Principals)]

\* the request bodies tried: project_shared and comment_added with every
\* field present or absent, the other types with their recipient
SharedEvents ==
  {Event(project_shared, u, p, a, l) :
     u \in {0} \cup Principals, p \in {0} \cup ProjectIds,
     a \in {0} \cup Principals, l \in {NULL, "view"}}
CommentEvents ==
  {Event(comment_added, u, p, a, NULL) :
     u \in {0} \cup Principals, p \in {0} \cup ProjectIds,
     a \in {0} \cup Principals}
OtherEvents ==
  {Event(t, u, 0, 1, NULL) :
     t \in InputTypes \ {project_shared, comment_added},
     u \in {0} \cup Principals}
Events == SharedEvents \cup CommentEvents \cup OtherEvents

\* the result of a handler: the table after it, and the fields of Resp it sets
Handled(rows, success, error, inserted, insertFailed, emailed, emailFailed) ==
  [rows |-> rows, success |-> success, error |-> error, inserted |-> inserted,
   insertFailed |-> insertFailed, emailed |-> emailed,
   emailFailed |-> emailFailed]
Failed(error) == Handled(notifications, "false", error, {}, {}, {}, {})

\* the tail the three handlers of process-notification share: insert one row
\* for userId, return an error value when that fails, otherwise call
\* sendEmailNotification inside try/catch and return success either way
InsertThenEmail(userId, type, env) ==
  IF userId \in env.insertFails
  THEN Handled(notifications, "false", "Error creating notification",
               {}, {userId}, {}, {})
  ELSE Handled(Append(notifications, Notification(userId, type)), "true",
               NULL, {Len(notifications) + 1}, {}, {userId},
               {userId} \cap env.emailFails)

\* processProjectSharedNotification(supabase, userId, {projectId, sharedById})
processProjectSharedNotification(userId, ev, env) ==
  IF ~ProjectExists(ev.projectId)
  THEN Failed("Error fetching project")
  ELSE IF ev.actor \notin Principals
  THEN Failed("Error fetching sharer profile")
  ELSE InsertThenEmail(userId, project_shared, env)

\* processCommentAddedNotification(supabase, userId,
\*   {projectId, commentId, commenterId})
processCommentAddedNotification(userId, ev, env) ==
  IF ~ProjectExists(ev.projectId)
  THEN Failed("Error fetching project")
  ELSE IF ev.actor \notin Principals
  THEN Failed("Error fetching commenter profile")
  ELSE InsertThenEmail(userId, comment_added, env)

\* processTeamInvitationNotification(supabase, userId, {teamId, inviterId})
processTeamInvitationNotification(userId, ev, env) ==
  IF ev.actor \notin Principals
  THEN Failed("Error fetching inviter profile")
  ELSE InsertThenEmail(userId, team_invitation, env)

\* processSystemAnnouncementNotification: called by process-notification, its
\* body is in no file; taken to persist and then email like its siblings
processSystemAnnouncementNotification(userId, ev, env) ==
  InsertThenEmail(userId, system_announcement, env)

\* the check "userPrefs[type.replace('_', '')]" passing for every type
TypeEnabled_always(userPrefs, type) == TRUE

\* userPrefs[type.replace('_', '')] as a condition
TypeEnabled(userPrefs, type) == Truthy(userPrefs, ReplaceFirst(type, "_"))

\* process-notification (serve handler and processNotification): the
\* recipient's preferences are read, with the all-true object when there is
\* no row; a type whose check fails is skipped; the others go to their
\* handler. The response has status 200 unless something throws (400).
processNotification(ev, prefError, env) ==
  LET r == Called("processNotification", 0, ev)
      userPrefs == ResolvePrefs(ev.userId)
      known == [r EXCEPT !.userPrefs = userPrefs]
      h == CASE ev.type = project_shared ->
                  processProjectSharedNotification(ev.userId, ev, env)
             [] ev.type = comment_added ->
                  processCommentAddedNotification(ev.userId, ev, env)
             [] ev.type = team_invitation ->
                  processTeamInvitationNotification(ev.userId, ev, env)
             [] ev.type = system_announcement ->
                  processSystemAnnouncementNotification(ev.userId, ev, env)
             [] OTHER -> Failed("Unknown notification type")
  IN /\ resp.n < MaxDispatches
     /\ UNCHANGED uiVars
     /\ UNCHANGED <<projects, nextProjectId, project_access, last, calls,
                    user_notification_preferences>>
     /\ IF ev.userId \notin Principals \/ prefError
        THEN /\ resp' = [r EXCEPT !.status = 200, !.success = "false",
                           !.error = "Error fetching notification preferences"]
             /\ UNCHANGED notifications
        ELSE IF ev.type = << >>
        THEN \* type.replace on undefined throws, the catch answers 400
             /\ resp' = [known EXCEPT !.status = 400, !.success = "false",
                           !.error = "TypeError"]
             /\ UNCHANGED notifications
        ELSE IF ~TypeEnabled(userPrefs, ev.type)
        THEN /\ resp' = [known EXCEPT !.status = 200, !.success = "true",
                           !.skipped = TRUE]
             /\ UNCHANGED notifications
        ELSE /\ notifications' = h.rows
             /\ resp' = [known EXCEPT !.status = 200, !.success = h.success,
                           !.error = h.error, !.inserted = h.inserted,
                           !.insertFailed = h.insertFailed,
                           !.emailed = h.emailed,
                           !.emailFailed = h.emailFailed]


\* ------------------------------------------------ the "notify" function
\* the ids of a set in ascending order (the order rows come back in is not
\* fixed by the query; it only decides the order of rows of one call)
RECURSIVE SeqOf(_)
SeqOf(S) ==
  IF S = {} THEN << >>
  ELSE LET m == CHOOSE x \in S : \A y \in S : x <= y
       IN <<m>> \o SeqOf(S \ {m})

\* Promise.all of one insert per entry of notifyUserIds; an insert that fails
\* resolves with an error nobody reads
RECURSIVE InsertAll(_, _, _, _)
InsertAll(rows, ids, type, fails) ==
  IF ids = << >> THEN rows
  ELSE InsertAll(IF Head(ids) \in fails THEN rows
                 ELSE Append(rows, Notification(Head(ids), type)),
                 Tail(ids), type, fails)

\* what a handler of notify ends with: the table, whether it threw (the
\* message), and the fields of Resp it sets
Thrown(rows, error, inserted, insertFailed, emailed, emailFailed) ==
  [rows |-> rows, thrown |-> TRUE, error |-> error, notified |-> 0,
   inserted |-> inserted, insertFailed |-> insertFailed, emailed |-> emailed,
   emailFailed |-> emailFailed]
Returned(rows, notified, inserted, insertFailed, emailed) ==
  [rows |-> rows, thrown |-> FALSE, error |-> NULL, notified |-> notified,
   inserted |-> inserted, insertFailed |-> insertFailed, emailed |-> emailed,
   emailFailed |-> {}]

\* the insert of one row followed by "if (error) throw error" and an email
\* sent with a bare await: handleProjectSharedNotification and
\* handleTeamInvitationNotification after their lookups
InsertEmailOrThrow(userId, type, env) ==
  LET rows == Append(notifications, Notification(userId, type))
      id == {Len(notifications) + 1}
  IN IF userId \notin Principals \/ userId \in env.insertFails
     THEN Thrown(notifications, "insert error", {}, {userId}, {}, {})
     ELSE IF userId \in env.emailFails
     THEN Thrown(rows, "Failed to send email", id, {}, {userId}, {userId})
     ELSE Returned(rows, 1, id, {}, {userId})

\* handleProjectSharedNotification({projectId, recipientUserId, senderUserId,
\* accessLevel}): the lookups run with the caller's token and are not checked,
\* so a project or sender that is not found throws a TypeError when the
\* content is built; accessLevel is only interpolated
handleProjectSharedNotification(caller, ev, env) ==
  IF getProjectById(caller, ev.projectId) = {} \/ ev.actor \notin Principals
  THEN Thrown(notifications, "TypeError", {}, {}, {}, {})
  ELSE InsertEmailOrThrow(ev.userId, project_shared, env)

\* [project.user_id, ...projectAccess.map(a => a.user_id)]
\*   .filter(id => id !== commentorUserId)
notifyUserIds(caller, p, commentorUserId) ==
  LET owner == (CHOOSE r \in getProjectById(caller, p) : TRUE).user_id
      granted == {a.user_id : a \in getProjectAccess(caller, p)}
  IN SelectSeq(<<owner>> \o SeqOf(granted), LAMBDA id : id # commentorUserId)

\* handleCommentAddedNotification({projectId, commentId, commentorUserId})
handleCommentAddedNotification(caller, ev, env) ==
  IF getProjectById(caller, ev.projectId) = {}
  THEN Thrown(notifications, "TypeError", {}, {}, {}, {})
  ELSE LET ids == notifyUserIds(caller, ev.projectId, ev.actor)
           rows == InsertAll(notifications, ids, comment_added,
                             env.insertFails)
           inserted == (Len(notifications) + 1)..Len(rows)
           users == {ids[i] : i \in 1..Len(ids)}
           refused == users \cap env.insertFails
       IN IF ids # << >> /\ ev.actor \notin Principals
          THEN \* commentor is null: the first callback throws
               Thrown(notifications, "TypeError", {}, {}, {}, {})
          ELSE IF users \cap env.emailFails # {}
          THEN Thrown(rows, "Failed to send email", inserted, refused, users,
                      users \cap env.emailFails)
          ELSE Returned(rows, Len(ids), inserted, refused, users)

\* handleTeamInvitationNotification({teamId, inviteeUserId, inviterUserId})
handleTeamInvitationNotification(caller, ev, env) ==
  IF ev.actor \notin Principals
  THEN Thrown(notifications, "TypeError", {}, {}, {}, {})
  ELSE InsertEmailOrThrow(ev.userId, team_invitation, env)

\* notify (serve handler and processNotification): the handler's result is
\* answered with status 200, anything thrown with status 400 and the message
notify(caller, ev, env) ==
  LET r == Called("notify", caller, ev)
      h == CASE ev.type = project_shared ->
                  handleProjectSharedNotification(caller, ev, env)
             [] ev.type = comment_added ->
                  handleCommentAddedNotification(caller, ev, env)
             [] ev.type = team_invitation ->
                  handleTeamInvitationNotification(caller, ev, env)
             [] OTHER ->
                  Thrown(notifications, "Unknown notification type",
                         {}, {}, {}, {})
  IN /\ resp.n < MaxDispatches
     /\ UNCHANGED uiVars
     /\ UNCHANGED <<projects, nextProjectId, project_access, last, calls,
                    user_notification_preferences>>
     /\ notifications' = h.rows
     /\ resp' = [r EXCEPT !.status = IF h.thrown THEN 400 ELSE 200,
                          !.success = IF h.thrown THEN NULL ELSE "true",
                          !.error = h.error, !.notified = h.notified,
                          !.inserted = h.inserted,
                          !.insertFailed = h.insertFailed,
                          !.emailed = h.emailed,
                          !.emailFailed = h.emailFailed]

\* --------------------------- process-notification of the setup guide
\* processNotification(req): type, userId and data are required, the type
\* selects the handler, and the status is 200 for success, 500 otherwise
processNotificationRequest(ev, env) ==
  LET r == Called("processNotificationRequest", 0, ev)
      h == CASE ev.type = project_shared ->
                  processProjectSharedNotification(ev.userId, ev, env)
             [] ev.type = comment_added ->
                  processCommentAddedNotification(ev.userId, ev, env)
             [] ev.type = team_invitation ->
                  processTeamInvitationNotification(ev.userId, ev, env)
             [] OTHER -> Failed("Unknown notification type")
  IN /\ resp.n < MaxDispatches
     /\ UNCHANGED uiVars
     /\ UNCHANGED <<projects, nextProjectId, project_access, last, calls,
                    user_notification_preferences>>
     /\ IF ev.type = << >> \/ ev.userId \notin Principals
        THEN /\ resp' = [r EXCEPT !.status = 400, !.success = "false",
                           !.error = "Missing required fields"]
             /\ UNCHANGED notifications
        ELSE IF ev.type \notin {project_shared, comment_added, team_invitation}
        THEN /\ resp' = [r EXCEPT !.status = 400, !.success = "false",
                           !.error = h.error]
             /\ UNCHANGED notifications
        ELSE /\ notifications' = h.rows
             /\ resp' = [r EXCEPT
                           !.status = IF h.success = "true" THEN 200 ELSE 500,
                           !.success = h.success, !.error = h.error,
                           !.inserted = h.inserted,
                          !.insertFailed = h.insertFailed,
                          !.emailed = h.emailed,
                           !.emailFailed = h.emailFailed]

\* project-share-notification: projectId, userId and accessLevel are
\* required; recipient, project and owner are looked up with the caller's
\* token; the notification itself is a log line
projectShareNotification(caller, ev) ==
  LET r == Called("projectShareNotification", caller, ev)
      error == IF ev.projectId = 0 \/ ev.userId = 0 \/ ev.level = NULL
               THEN "Missing required fields"
               ELSE IF ev.userId \notin Principals
               THEN "Recipient user not found"
               ELSE IF getProjectById(caller, ev.projectId) = {}
               THEN "Project not found"
               ELSE NULL
  IN /\ resp.n < MaxDispatches
     /\ UNCHANGED uiVars
     /\ UNCHANGED <<projects, nextProjectId, project_access, last, calls,
                    user_notification_preferences, notifications>>
     /\ resp' = [r EXCEPT !.status = IF error = NULL THEN 200 ELSE 400,
                          !.success = IF error = NULL THEN "true" ELSE NULL,
                          !.error = error]


Next ==
  \/ \E u \in Principals, p \in {0} \cup ProjectIds, in \in SaveInputs,
        tools \in ToolSets : saveProject(u, p, in[1], in[2], tools)
  \/ \E u \in Principals, p \in ProjectIds, tools \in ToolSets :
       updateProjectTools(u, p, tools)
  \/ \E u \in Principals, p \in ProjectIds, flag \in BoolOrNull :
       setProjectPublic(u, p, flag)
  \/ \E u \in Principals, p \in ProjectIds : handleDelete(u, p)
  \/ \E u \in Principals, p \in ProjectIds, contact \in Contacts,
        level \in AccessLevel : addProjectAccess(u, p, contact, level)
  \/ \E u \in Principals, a \in project_access : removeProjectAccess(u, a.id)

Spec == Init /\ [][Next]_vars

\* two sessions of a project's owner adding access from the sharing dialog
RaceNext ==
  \/ \E u \in Principals : saveProject(u, 0, <<"a">>, <<"a">>, {})
  \/ \E i \in Calls, u \in Principals, p \in ProjectIds, contact \in Contacts,
        level \in AccessLevel :
       openSharingDialog(u, p) /\ addProjectAccess_lookup(i, u, p, contact, level)
  \/ \E i \in Calls : addProjectAccess_write(i)
  \/ \E i \in Calls : addProjectAccess_return(i)

SpecRace == Init /\ [][RaceNext]_vars

\* ------------------------------------------------ useNotifications
\* "Users can view their own notifications"
ViewOwnNotifications(u, row) == row.user_id = u

\* "Users can update their own notifications"
UpdateOwnNotifications(u, row) == row.user_id = u

\* the ids of S from the highest down, at most n of them:
\* .order('created_at', { ascending: false }).limit(n)
RECURSIVE Newest(_, _)
Newest(S, n) ==
  IF S = {} \/ n = 0 THEN << >>
  ELSE LET m == CHOOSE x \in S : \A y \in S : y <= x
       IN <<m>> \o Newest(S \ {m}, n - 1)

\* the filter of fetchNotifications without .is('deleted_at', null)
Listable_withDeleted(user) ==
  {i \in 1..Len(notifications) :
     /\ ViewOwnNotifications(user, notifications[i])
     /\ notifications[i].user_id = user}

\* .eq('user_id', user.id).is('deleted_at', null), under the SELECT policy
Listable(user) ==
  {i \in 1..Len(notifications) :
     /\ ViewOwnNotifications(user, notifications[i])
     /\ notifications[i].user_id = user
     /\ notifications[i].deleted_at = NULL}

\* fetchNotifications(): the caller's active notifications, newest first
fetchNotifications(user) ==
  /\ resp' = [Hooked("fetchNotifications", user, 0) EXCEPT
                !.listing = Newest(Listable(user), ListLimit)]
  /\ UNCHANGED uiVars
  /\ UNCHANGED <<projects, nextProjectId, project_access, last, calls,
                 user_notification_preferences, notifications>>

\* UPDATE notifications SET ... WHERE the row is in hit, under the UPDATE
\* policy: rows of other recipients are left alone without an error (the
\* hook returns the {error} of an update that matched no row, which is null)
UpdateNotifications(user, hit, new(_)) ==
  [i \in 1..Len(notifications) |->
     IF i \in hit /\ UpdateOwnNotifications(user, notifications[i])
     THEN new(notifications[i]) ELSE notifications[i]]

\* markAsRead(notificationId)
markAsRead(user, id) ==
  /\ notifications' = UpdateNotifications(user, {id},
                        LAMBDA r : [r EXCEPT !.read = TRUE])
  /\ resp' = Hooked("markAsRead", user, id)
  /\ UNCHANGED uiVars
  /\ UNCHANGED <<projects, nextProjectId, project_access, last, calls,
                 user_notification_preferences>>

\* markAllAsRead()
markAllAsRead(user) ==
  /\ notifications' =
       UpdateNotifications(user,
         {i \in 1..Len(notifications) :
            notifications[i].user_id = user /\ ~notifications[i].read},
         LAMBDA r : [r EXCEPT !.read = TRUE])
  /\ resp' = Hooked("markAllAsRead", user, 0)
  /\ UNCHANGED uiVars
  /\ UNCHANGED <<projects, nextProjectId, project_access, last, calls,
                 user_notification_preferences>>

\* deleteNotification(notificationId): deleted_at is set, the row stays
deleteNotification(user, id) ==
  /\ notifications' = UpdateNotifications(user, {id},
                        LAMBDA r : [r EXCEPT !.deleted_at = "set"])
  /\ resp' = Hooked("deleteNotification", user, id)
  /\ UNCHANGED uiVars
  /\ UNCHANGED <<projects, nextProjectId, project_access, last, calls,
                 user_notification_preferences>>

\* ------------------------------------------------ notification behaviours
\* the stores a notification call can find: project 1 with some owner,
\* private or public, and some grantees with a row each (the owner can be
\* among them, see C3); these are states saveProject, setProjectPublic and
\* addProjectAccess reach
ProjectOf(o, pub) ==
  [id |-> 1, user_id |-> o, name |-> <<"a">>, description |-> <<"a">>,
   tools |-> {}, is_public |-> pub]
GrantsOf(G) ==
  {[id |-> <<1, g, 1>>, project_id |-> 1, user_id |-> g,
    access_level |-> "view"] : g \in G}

\* the preference stores with no row, or principal 1's row with e-mail off
EmailOffStores ==
  {S \in PrefStores :
     \A r \in S : /\ r.user_id = 1
                  /\ r.toggles =
                       [DefaultPrefs EXCEPT ![email_notifications] = FALSE]}

InitStore(owners, public, grantSets, prefStores, tables) ==
  /\ InitPage /\ InitTool("prd")
  /\ \E o \in owners, pub \in public : projects = {ProjectOf(o, pub)}
  /\ nextProjectId = 2
  /\ \E G \in grantSets : project_access = GrantsOf(G)
  /\ last = Last("none", 0, 0, 0, NULL, NULL, FALSE, 0)
  /\ calls = [i \in Calls |-> NoCall]
  /\ user_notification_preferences \in prefStores
  /\ notifications \in tables
  /\ resp = NoResp

\* process-notification with the preference gate, over every preference store
InitGate == InitStore({1}, {"false"}, {{}}, PrefStores, {<< >>})
GateNext ==
  \E ev \in Events, prefError \in BOOLEAN, env \in Envs :
    processNotification(ev, prefError, env)
SpecGate == InitGate /\ [][GateNext]_vars

\* the dispatch functions that resolve recipients and persist, over every
\* owner and set of grantees
InitDispatch ==
  InitStore(Principals, {"false"}, SUBSET Principals, EmailOffStores,
            {<< >>})
DispatchNext ==
  \/ \E caller \in Principals, ev \in Events, env \in Envs :
       notify(caller, ev, env)
  \/ \E ev \in Events, env \in Envs : processNotificationRequest(ev, env)
  \/ \E caller \in Principals, ev \in SharedEvents :
       projectShareNotification(caller, ev)
SpecDispatch == InitDispatch /\ [][DispatchNext]_vars

\* the client hook over a table that holds nothing or a backlog (one row of
\* principal 2, then rows of principal 1), with notifications still arriving
Backlog(k) ==
  [i \in 1..k |-> Notification(IF i = 1 THEN 2 ELSE 1, comment_added)]
InitList ==
  InitStore({1}, {"false"}, {{}}, {{}}, {Backlog(0), Backlog(MaxBacklog)})
ListNext ==
  \/ \E ev \in CommentEvents, env \in Envs : processNotificationRequest(ev, env)
  \/ \E user \in Principals : fetchNotifications(user)
  \/ \E user \in Principals,
        id \in {1, 2, Len(notifications), Len(notifications) + 1} :
       markAsRead(user, id)
  \/ \E user \in Principals : markAllAsRead(user)
  \/ \E user \in Principals,
        id \in {1, 2, Len(notifications), Len(notifications) + 1} :
       deleteNotification(user, id)
SpecList == InitList /\ [][ListNext]_vars

\* ------------------------------------------------ the ways a project is saved
\* what the name and description fields of a form can hold: text, blanks,
\* nothing
FieldInputs == {<<"a">>, <<" ">>, <<>>}

\* handleSubmit of the Projects page: an empty name or description (!value)
\* is refused with a toast, everything else goes to saveProject through the
\* mutation of useProjects
handleSubmit(u, p, name, description, tools) ==
  IF name = <<>> \/ description = <<>>
  THEN /\ last' = Last("handleSubmit", u, p, 0, NULL, "invalid", FALSE, 0)
       /\ UNCHANGED <<projects, nextProjectId, project_access, calls>>
       /\ UNCHANGED notifyVars
       /\ UNCHANGED uiVars
  ELSE saveProject(u, p, name, description, tools)

\* handleSaveProject of the Save Project dialog: the name is checked with
\* trim, the description is not checked, and the row is inserted as typed
\* (tools and is_public take their column defaults)
handleSaveProject(u, name, description) ==
  /\ UNCHANGED <<project_access, calls>>
  /\ UNCHANGED notifyVars
  /\ UNCHANGED uiVars
  /\ IF Trim(name) = <<>>
     THEN /\ last' = Last("handleSaveProject", u, 0, 0, NULL, "invalid",
                          FALSE, 0)
          /\ UNCHANGED <<projects, nextProjectId>>
     ELSE LET row == [id |-> nextProjectId, user_id |-> u, name |-> name,
                      description |-> description, tools |-> {},
                      is_public |-> "false"]
          IN /\ nextProjectId <= MaxProjects
             /\ ProjectsInsert(u, row)
             /\ projects' = projects \cup {row}
             /\ nextProjectId' = nextProjectId + 1
             /\ last' = Last("handleSaveProject", u, row.id, 0, NULL, "ok",
                             FALSE, 0)

\* saveProject as the file that precedes projectService.ts has it: the row
\* written is {...project, user_id: userId, updated_at}, for an update as for
\* an insert
saveProjectData(u, p, name, description, tools) ==
  /\ UNCHANGED <<project_access, calls>>
  /\ UNCHANGED notifyVars
  /\ UNCHANGED uiVars
  /\ IF Trim(name) = <<>> \/ Trim(description) = <<>>
     THEN /\ last' = Last("saveProjectData", u, p, 0, NULL, "invalid", FALSE, 0)
          /\ UNCHANGED <<projects, nextProjectId>>
     ELSE IF p # 0
     THEN LET new(r) == [r EXCEPT !.name = name, !.description = description,
                                  !.tools = tools, !.user_id = u]
              hit == UpdatableProjects(u, p, new)
          IN /\ projects' = (projects \ hit) \cup {new(r) : r \in hit}
             /\ last' = Last("saveProjectData", u, p, 0, NULL,
                             IF hit = {} THEN "no_rows" ELSE "ok", FALSE, 0)
             /\ UNCHANGED nextProjectId
     ELSE LET row == [id |-> nextProjectId, user_id |-> u, name |-> name,
                      description |-> description, tools |-> tools,
                      is_public |-> "false"]
          IN /\ nextProjectId <= MaxProjects
             /\ ProjectsInsert(u, row)
             /\ projects' = projects \cup {row}
             /\ nextProjectId' = nextProjectId + 1
             /\ last' = Last("saveProjectData", u, row.id, 0, NULL, "ok",
                             FALSE, 0)

\* the save paths of the application, on projects that are shared and deleted
SaveNext ==
  \/ \E u \in Principals, p \in {0} \cup ProjectIds, name \in FieldInputs,
        description \in FieldInputs, tools \in ToolSets :
       saveProject(u, p, name, description, tools)
  \/ \E u \in Principals, p \in {0} \cup ProjectIds, name \in FieldInputs,
        description \in FieldInputs, tools \in ToolSets :
       handleSubmit(u, p, name, description, tools)
  \/ \E u \in Principals, name \in FieldInputs, description \in FieldInputs :
       handleSaveProject(u, name, description)
  \/ \E u \in Principals, p \in {0} \cup ProjectIds, name \in FieldInputs,
        description \in FieldInputs, tools \in ToolSets :
       saveProjectData(u, p, name, description, tools)
  \/ \E u \in Principals, p \in ProjectIds, contact \in Contacts,
        level \in AccessLevel : addProjectAccess(u, p, contact, level)
  \/ \E u \in Principals, p \in ProjectIds : handleDelete(u, p)

SpecSave == Init /\ [][SaveNext]_vars

\* ------------------------------------------------------------ properties
LastGrantee == CHOOSE g \in LookupUser(last.contact) : TRUE
LastIsAdd == last.op = "addProjectAccess"
LastIsRemove == last.op = "removeProjectAccess"
OnePerPair ==
  \A p \in ProjectIds, g \in Principals : Cardinality(RowsFor(p, g)) <= 1

\* C1: a sequence of addProjectAccess calls made one after the other by the
\* project's owner (the only caller the sharing dialog admits) leaves at most
\* one row per (project, grantee) pair; each call with a known contact ends
\* without error, leaves exactly one row for its pair carrying the level it was
\* passed, leaves every other pair's rows as they were, and returns
\* updated = false exactly when the pair had no row before the call.
C1_UpsertLastWriteWins ==
  [][/\ OnePerPair'
     /\ (/\ LastIsAdd'
         /\ openSharingDialog(last'.caller, last'.project)
         /\ LookupUser(last'.contact) # {})
        => LET p == last'.project
               g == LastGrantee'
           IN /\ last'.outcome = "ok"
              /\ \E a \in project_access' :
                   /\ RowsIn(project_access', p, g) = {a}
                   /\ a.access_level = last'.level
              /\ last'.updated = (RowsFor(p, g) # {})
              /\ \A q \in ProjectIds, h \in Principals :
                   <<q, h>> # <<p, g>> => RowsFor(q, h)' = RowsFor(q, h)]_vars

\* C1 witness: the owner's second call for a pair has returned updated = true
\* and the pair's only row carries the new level
C1_Witness ==
  /\ LastIsAdd /\ last.outcome = "ok" /\ last.updated /\ last.level = "edit"
  /\ openSharingDialog(last.caller, last.project)
  /\ LastGrantee # last.caller
  /\ \E a \in project_access :
       RowsFor(last.project, LastGrantee) = {a} /\ a.access_level = "edit"

\* C2: addProjectAccess calls in flight for the same (project, grantee) pair
\* never leave two rows for the pair; of any two calls that both looked the pair
\* up before a row for it was written, at most one insert succeeds and a call
\* that does not succeed ends with the unique-constraint violation, the pair
\* holding exactly one row.
C2_RaceNeverTwoRows ==
  /\ OnePerPair
  /\ \A i \in Calls, j \in Calls :
       (/\ i # j
        /\ calls[i].pc = "done" /\ calls[j].pc = "done"
        /\ calls[i].user # 0
        /\ calls[i].project = calls[j].project /\ calls[i].user = calls[j].user
        /\ calls[i].existing = {} /\ calls[j].existing = {})
       => /\ {calls[i].outcome, calls[j].outcome} \subseteq {"ok", "unique"}
          /\ ~(calls[i].outcome = "ok" /\ calls[j].outcome = "ok")
          /\ Cardinality(RowsFor(calls[i].project, calls[i].user)) = 1

\* C2 witness: both calls saw no row, one inserted, the other hit the constraint
C2_Witness ==
  /\ calls[1].pc = "done" /\ calls[2].pc = "done"
  /\ calls[1].project = calls[2].project /\ calls[1].user = calls[2].user
  /\ calls[1].existing = {} /\ calls[2].existing = {}
  /\ calls[1].outcome = "ok" /\ calls[2].outcome = "unique"

\* C3: no project_access row names its project's owner as grantee, and an
\* addProjectAccess call with the owner's own contact ends with an
\* invalid-grant error.
C3_NoGrantForOwner ==
  /\ \A a \in project_access : ~IsOwner(a.user_id, a.project_id)
  /\ (LastIsAdd /\ LookupUser(last.contact) # {}
        /\ IsOwner(LastGrantee, last.project))
     => last.outcome = "invalid_grant"

\* C4: the owner of a project passes every policy on it (select, update,
\* delete, manage and list its project_access rows, has_project_access and
\* check_project_access), with or without project_access rows, and no call of
\* the owner on the project is filtered or refused by a policy.
OwnerPolicies ==
  \A r \in projects :
    LET o == r.user_id
    IN /\ ProjectsSelect(o, r)
       /\ getProjectById(o, r.id) = {r}
       /\ ProjectsUpdate(o, r, r)
       /\ ProjectsDelete(o, r)
       /\ \A g \in Principals, lvl \in AccessLevel :
            ManageAccess(o, [id |-> NewAccessId(r.id, g), project_id |-> r.id,
                             user_id |-> g, access_level |-> lvl])
       /\ getProjectAccess(o, r.id) = {a \in project_access : a.project_id = r.id}
       /\ openSharingDialog(o, r.id)
       /\ \A req \in {"view", "edit"} : has_project_access(r.id, o, req)
       /\ check_project_access(r.id, o)

C4_OwnerMayDoEverything ==
  [][/\ OwnerPolicies'
     /\ (last' # last /\ IsOwner(last'.caller, last'.project))
        => last'.outcome \in {"ok", "invalid", "user_not_found"}]_vars

\* C4 witness: the owner has updated a project that has no project_access row
C4_Witness ==
  /\ last.op = "updateProjectTools" /\ last.outcome = "ok"
  /\ IsOwner(last.caller, last.project)
  /\ \A a \in project_access : a.project_id # last.project

\* C5: a principal that is neither the owner of a project nor named by one of
\* its project_access rows cannot read the project unless is_public is true:
\* with is_public false or null every read path (the select policies,
\* getProjectById, getAllAccessibleProjects, has_project_access,
\* check_project_access) denies it.
C5_NoReadWithoutGrant ==
  \A r \in projects, u \in Principals :
    (u # r.user_id /\ RowsFor(r.id, u) = {} /\ r.is_public # "true")
    => /\ ~ProjectsSelect(u, r)
       /\ getProjectById(u, r.id) = {}
       /\ \A e \in getAllAccessibleProjects(u) : e.project # r
       /\ ~has_project_access(r.id, u, "view")
       /\ ~check_project_access(r.id, u)

\* C5 witness: a project whose is_public is null, shared with one principal who
\* reads it, and hidden from another who has no grant
C5_Witness ==
  \E r \in projects, u \in Principals, v \in Principals :
    /\ r.is_public = NULL
    /\ u # r.user_id /\ RowsFor(r.id, u) = {} /\ getProjectById(u, r.id) = {}
    /\ v # r.user_id /\ RowsFor(r.id, v) # {} /\ getProjectById(v, r.id) = {r}

\* C6: an update of a project (saveProject with an id, updateProjectTools) by a
\* principal that is not its owner and holds no 'edit' grant on it is rejected
\* with an error and leaves the projects table unchanged.
MayWrite(u, p) ==
  \/ IsOwner(u, p)
  \/ \E a \in RowsFor(p, u) : a.access_level = "edit"

C6_WriteNeedsEditGrant ==
  [][(/\ last' # last
      /\ last'.op \in {"saveProject", "updateProjectTools"}
      /\ ProjectExists(last'.project)
      /\ ~MayWrite(last'.caller, last'.project))
     => /\ projects' = projects
        /\ last'.outcome \in {"invalid", "no_rows", "rls"}]_vars

\* the part of C6 the code keeps: such an update never changes the table
C6_RowUnchanged ==
  [][(/\ last' # last
      /\ last'.op \in {"saveProject", "updateProjectTools", "setProjectPublic"}
      /\ ProjectExists(last'.project)
      /\ ~MayWrite(last'.caller, last'.project))
     => projects' = projects]_vars

\* C7: only the owner of a project creates, changes or removes its
\* project_access rows; any other principal, with or without a grant, sees at
\* most its own row of the project and cannot open the sharing dialog on it.
RowsOf(p) == {a \in project_access : a.project_id = p}

C7_OnlyOwnerManagesGrants ==
  [][/\ \A p \in ProjectIds :
          RowsOf(p)' # RowsOf(p)
          => /\ last' # last
             /\ last'.project = p
             /\ IsOwner(last'.caller, p)
     /\ \A r \in projects', u \in Principals :
          u # r.user_id
          => /\ ~openSharingDialog(u, r.id)'
             /\ \A a \in getProjectAccess(u, r.id)' : a.user_id = u]_vars

\* C7 witness: a principal holding a 'view' grant called addProjectAccess to
\* raise its own grant to 'edit'; the row still says 'view'
C7_Witness ==
  /\ LastIsAdd /\ last.level = "edit" /\ last.outcome = "noop"
  /\ LookupUser(last.contact) = {last.caller}
  /\ ~IsOwner(last.caller, last.project)
  /\ \E a \in project_access :
       RowsFor(last.project, last.caller) = {a} /\ a.access_level = "view"

\* C8: addProjectAccess with a contact that no profile carries ends with the
\* user-not-found error and leaves the project_access table as it was.
KnownContact(c) == \E pr \in profiles : pr.username = c

C8_UnknownRecipient ==
  [][(last' # last /\ LastIsAdd' /\ ~KnownContact(last'.contact))
     => /\ last'.outcome = "user_not_found"
        /\ project_access' = project_access]_vars

\* C8 witness: the owner's call with an unknown contact failed while the
\* project has rows
C8_Witness ==
  /\ LastIsAdd /\ ~KnownContact(last.contact)
  /\ last.outcome = "user_not_found"
  /\ IsOwner(last.caller, last.project)
  /\ RowsOf(last.project) # {}

C10_NoDanglingGrant ==
  /\ \A a \in project_access : ProjectExists(a.project_id)
  /\ \A u \in Principals :
       /\ \A e \in getAllAccessibleProjects(u) : e.project \in projects
       /\ \A p \in ProjectIds : ~ProjectExists(p) => getProjectAccess(u, p) = {}

\* C10 witness: the owner deleted a project and its rows went with it
C10_Witness ==
  /\ last.op = "handleDelete" /\ last.outcome = "ok" /\ last.n >= 2
  /\ ~ProjectExists(last.project)
  /\ project_access = {}

\* a listing L made for principal u holds exactly u's own projects and the
\* projects u has a project_access row on, the own ones tagged is_shared =
\* false, the granted ones is_shared = true with the row's level, and nothing
\* that u does not own is tagged is_shared = false
OwnedPlusGranted(L, u) ==
  LET own == {r \in projects : r.user_id = u}
      grants == {a \in project_access : a.user_id = u}
  IN /\ {e.project.id : e \in L} =
          {r.id : r \in own} \cup {a.project_id : a \in grants}
     /\ \A r \in own :
          [project |-> r, is_shared |-> FALSE, access_level |-> NULL] \in L
     /\ \A a \in grants : \A r \in projects :
          r.id = a.project_id =>
            [project |-> r, is_shared |-> TRUE,
             access_level |-> a.access_level] \in L
     /\ \A e \in L : ~e.is_shared => e.project.user_id = u

\* C11: for every principal, getAllAccessibleProjects returns exactly the
\* projects the principal owns (tagged is_shared = false) and the projects it
\* holds a grant on (tagged is_shared = true with the grant's level), and
\* tags no project of another owner as owned.
C11_ListsOwnedPlusGranted ==
  \A u \in Principals : OwnedPlusGranted(getAllAccessibleProjects(u), u)

\* the same statement holds of fetchUserProjects, which filters by user_id
C11_FetchUserProjects ==
  \A u \in Principals : OwnedPlusGranted(fetchUserProjects(u), u)

\* ------------------------------------------------ notification properties
\* the recipients of the rows the last call inserted
NewRecipients == {notifications[i].user_id : i \in resp.inserted}

\* the owner of project p and every principal with a project_access row on it
OwnerAndGrantees(p) ==
  {r.user_id : r \in {x \in projects : x.id = p}} \cup
  {a.user_id : a \in {x \in project_access : x.project_id = p}}

LastIsComment(fn) == resp.fn = fn /\ resp.event.type = comment_added

\* C12: a comment_added dispatch creates a notification row for the project's
\* owner and for every principal with a grant on the project, except the
\* commenting actor, and never a row for the actor.
C12_CommentRecipients ==
  /\ LastIsComment("notify") /\ resp.status = 200 /\ resp.insertFailed = {}
       => NewRecipients = OwnerAndGrantees(resp.event.projectId) \ {resp.event.actor}
  /\ LastIsComment("notify") \/ LastIsComment("processNotificationRequest")
       => resp.event.actor \notin NewRecipients

\* what notify does keep: it never creates a row for the commentor, and when
\* the request carries the owner's token every grantee is reached
C12_NotifyByOwner ==
  LastIsComment("notify") =>
    /\ resp.event.actor \notin NewRecipients
    /\ /\ resp.status = 200 /\ resp.insertFailed = {}
       /\ IsOwner(resp.caller, resp.event.projectId)
       => NewRecipients =
            OwnerAndGrantees(resp.event.projectId) \ {resp.event.actor}

\* the column that holds the toggle of a notification type
CategoryToggle(type) ==
  CASE type = project_shared -> project_sharing
    [] type = comment_added -> comments
    [] type = team_invitation -> team_invitations
    [] type = system_announcement -> system_announcements

\* the toggles in force for a principal: its row, or every column's default
TogglesOf(u) ==
  IF \E r \in user_notification_preferences : r.user_id = u
  THEN (CHOOSE r \in user_notification_preferences : r.user_id = u).toggles
  ELSE [k \in PrefKeys |-> TRUE]

\* the last call was process-notification for one of the four types and a
\* known recipient, and the recipient's preferences were read
Gated ==
  /\ resp.fn = "processNotification"
  /\ resp.event.type \in NotificationType
  /\ resp.event.userId \in Principals
  /\ resp.error # "Error fetching notification preferences"

WellFormed ==
  /\ resp.event.actor \in Principals
  /\ resp.event.type \in {project_shared, comment_added}
       => ProjectExists(resp.event.projectId)

\* C14: for a recipient with no preference row, or with every toggle true, a
\* well-formed dispatch of any of the four types that meets no failure
\* persists a notification row for the recipient and is not answered skipped.
C14_EnabledIsPersisted ==
  /\ Gated /\ WellFormed
  /\ \A k \in PrefKeys : TogglesOf(resp.event.userId)[k]
  /\ resp.error = NULL /\ resp.insertFailed = {}
  => /\ ~resp.skipped
     /\ \E i \in resp.inserted :
          /\ notifications[i].user_id = resp.event.userId
          /\ notifications[i].type = resp.event.type

\* C15: e-mail is gated by the recipient's e-mail toggle alone: a recipient
\* whose category or in-app toggle is off and whose e-mail toggle is on gets
\* no row but the e-mail sender is still called for it, and the e-mail sender
\* is never called for a recipient whose e-mail toggle is off.
C15_EmailGatedByItsToggle ==
  LET u == resp.event.userId
      t == TogglesOf(u)
  IN /\ /\ Gated /\ WellFormed
        /\ ~t[CategoryToggle(resp.event.type)] \/ ~t[in_app_notifications]
        /\ t[email_notifications]
        => u \notin NewRecipients /\ u \in resp.emailed
     /\ \A v \in Principals :
          ~TogglesOf(v)[email_notifications] => v \notin resp.emailed

\* the second half of C15 alone: no e-mail for a recipient who turned it off
C15_NoEmailWhenOff ==
  \A v \in Principals :
    ~TogglesOf(v)[email_notifications] => v \notin resp.emailed

\* the rows the last call inserted are in the table, one for each recipient
\* the e-mail failed for
RowsRemain ==
  /\ resp.inserted \subseteq 1..Len(notifications)
  /\ resp.emailFailed \subseteq NewRecipients

\* the last call was a project_shared dispatch by fn whose e-mail failed
\* after the row was inserted
EmailFailedAfterInsert(fn) ==
  /\ resp.fn = fn /\ resp.event.type = project_shared
  /\ resp.inserted # {} /\ resp.emailFailed # {}

\* C16: when the e-mail send fails after the notification row was persisted,
\* the row stays in the store and the dispatch completes: nothing is raised
\* and the response is not an error response.
C16_EmailFailureIsContained ==
  \A fn \in {"notify", "processNotificationRequest"} :
    EmailFailedAfterInsert(fn) =>
      /\ RowsRemain
      /\ resp.status = 200 /\ resp.error = NULL /\ resp.success # "false"

\* the handler of the setup guide catches the failure and answers success
C16_CaughtInSetupGuide ==
  EmailFailedAfterInsert("processNotificationRequest") =>
    /\ RowsRemain
    /\ resp.status = 200 /\ resp.error = NULL /\ resp.success = "true"

\* in notify the row stays although the call is answered with an error
C16_RowStaysInNotify ==
  EmailFailedAfterInsert("notify") => RowsRemain /\ resp.status = 400

\* the recipients the last comment_added call of notify resolved
Resolved ==
  LET ids == notifyUserIds(resp.caller, resp.event.projectId, resp.event.actor)
  IN {ids[i] : i \in 1..Len(ids)}

\* the last call was a comment_added dispatch of notify that got as far as
\* its recipients, and the insert or the e-mail of one of them failed
OneRecipientFailed ==
  /\ LastIsComment("notify")
  /\ getProjectById(resp.caller, resp.event.projectId) # {}
  /\ resp.event.actor \in Principals
  /\ resp.insertFailed # {} \/ resp.emailFailed # {}

\* every recipient whose insert did not fail has its row, and the e-mail
\* sender was called for every recipient
OthersServed ==
  /\ Resolved \ resp.insertFailed \subseteq NewRecipients
  /\ Resolved \subseteq resp.emailed

\* C17: in a dispatch with several recipients a failure for one of them
\* (insert or e-mail) does not abort the others: they get their row and their
\* e-mail attempt, the response does not count the failed recipient as
\* notified, and the call does not raise.
C17_FailureIsPerRecipient ==
  OneRecipientFailed =>
    /\ OthersServed
    /\ resp.status = 200 /\ resp.error = NULL
    /\ resp.notified = Cardinality(resp.inserted)

\* what notify does keep: the other recipients get their row and their e-mail
C17_OthersStillServed == OneRecipientFailed => OthersServed

\* the last call was answered with an error and wrote nothing: no row was
\* inserted and the e-mail sender was not called
Aborted ==
  /\ resp.status = 400 /\ resp.error # NULL
  /\ resp.inserted = {} /\ resp.emailed = {}
  /\ notifications = << >>

\* a field of the last request, one of fields, is absent
Lacks(fields) ==
  \/ "projectId" \in fields /\ resp.event.projectId = 0
  \/ "userId" \in fields /\ resp.event.userId = 0
  \/ "actor" \in fields /\ resp.event.actor = 0
  \/ "level" \in fields /\ resp.event.level = NULL

\* the last call was function fn dispatching project_shared
LastIsShared(fn) == resp.fn = fn /\ resp.event.type = project_shared

\* the last call was a function that selects a handler by type, and the type
\* is none of the four
UnknownType ==
  /\ resp.fn \in {"notify", "processNotificationRequest"}
  /\ resp.event.type \notin NotificationType

\* C18: a dispatch whose event lacks a required field (project_shared:
\* projectId, actor, grantee, level), or whose type is outside the four, is
\* aborted with an error before any write: no row, no e-mail.
C18_InvalidPayloadAborts ==
  /\ LastIsShared("notify") /\ Lacks({"projectId", "userId", "actor", "level"})
       => Aborted
  /\ resp.fn = "projectShareNotification" /\ Lacks({"projectId", "userId", "level"})
       => Aborted
  /\ UnknownType => Aborted

\* what the functions do keep: a missing projectId, recipient or sender and
\* an unknown type abort the call before any write
C18_AbortsExceptLevel ==
  /\ LastIsShared("notify") /\ Lacks({"projectId", "userId", "actor"})
       => Aborted
  /\ resp.fn = "projectShareNotification" /\ Lacks({"projectId", "userId", "level"})
       => Aborted
  /\ UnknownType => Aborted

\* C19: resolving the preferences of a principal with no stored row yields an
\* object in which every toggle is true, and writes nothing: the store has no
\* row for the principal before and after the call.
C19_DefaultsWithoutWrite ==
  [][/\ resp'.fn = "processNotification"
     /\ resp'.event.userId \in Principals
     /\ resp'.error # "Error fetching notification preferences"
     /\ \A r \in user_notification_preferences :
          r.user_id # resp'.event.userId
     => /\ DOMAIN resp'.userPrefs = PrefKeys
        /\ \A k \in PrefKeys : resp'.userPrefs[k]
        /\ user_notification_preferences' = user_notification_preferences
        /\ \A r \in user_notification_preferences' :
             r.user_id # resp'.event.userId]_vars

\* C19 witness: the preferences of a principal without a row were resolved
\* while another principal has a row with a toggle off
C19_Witness ==
  /\ resp.fn = "processNotification" /\ resp.event.userId \in Principals
  /\ resp.error # "Error fetching notification preferences"
  /\ \A r \in user_notification_preferences : r.user_id # resp.event.userId
  /\ \E r \in user_notification_preferences : \E k \in PrefKeys : ~r.toggles[k]
  /\ \A k \in PrefKeys : resp.userPrefs[k]

\* row i is an active notification of principal u in table t
ActiveFor(t, i, u) ==
  /\ i \in 1..Len(t) /\ t[i].user_id = u /\ t[i].deleted_at = NULL

\* C20: a notification that was soft-deleted stays soft-deleted whatever is
\* done afterwards, and every listing holds only active notifications of its
\* recipient, newest first, at most 20 of them (the newest ones), so that no
\* listing made after a softDelete includes the deleted notification.
C20_ListingOmitsDeleted ==
  [][/\ \A i \in 1..Len(notifications) :
          notifications[i].deleted_at # NULL =>
            /\ i <= Len(notifications')
            /\ notifications'[i].deleted_at # NULL
            /\ notifications'[i].user_id = notifications[i].user_id
     /\ resp'.fn = "fetchNotifications" =>
          LET L == resp'.listing
              u == resp'.caller
          IN /\ Len(L) <= ListLimit
             /\ \A k \in 1..Len(L) :
                  /\ ActiveFor(notifications', L[k], u)
                  /\ \A j \in 1..(k - 1) : L[j] > L[k]
             /\ \A i \in 1..Len(notifications') :
                  ActiveFor(notifications', i, u) =>
                    \/ \E k \in 1..Len(L) : L[k] = i
                    \/ Len(L) = ListLimit /\ \A k \in 1..Len(L) : i < L[k]]_vars

\* C20 witness: a listing made for a recipient who soft-deleted its newest
\* notification: it is full, starts below the deleted one and leaves an older
\* active notification out
C20_Witness ==
  /\ resp.fn = "fetchNotifications"
  /\ Len(resp.listing) = ListLimit
  /\ \E i \in 1..Len(notifications) :
       /\ notifications[i].user_id = resp.caller
       /\ notifications[i].deleted_at # NULL
       /\ i > resp.listing[1]
  /\ \E i \in 1..Len(notifications) :
       /\ ActiveFor(notifications, i, resp.caller)
       /\ i < resp.listing[ListLimit]

\* table t after read = true was set on the rows of t in target and on no
\* other row
ReadSetOn(t, target) ==
  [i \in 1..Len(t) |-> IF i \in target THEN [t[i] EXCEPT !.read = TRUE]
                       ELSE t[i]]

\* the rows of table t that are unread notifications of principal u
UnreadOf(t, u) == {i \in 1..Len(t) : t[i].user_id = u /\ ~t[i].read}

\* C21: markAllAsRead of a recipient sets read = true on exactly the
\* recipient's active (not soft-deleted) unread notifications and on no other
\* row; when the recipient has no active unread notification the table is
\* left as it was.
C21_MarkAllReadFrame ==
  [][resp'.fn = "markAllAsRead" =>
       LET u == resp'.caller
           target == {i \in UnreadOf(notifications, u) :
                        ActiveFor(notifications, i, u)}
       IN /\ notifications' = ReadSetOn(notifications, target)
          /\ target = {} => notifications' = notifications]_vars

\* what markAllAsRead does keep: it sets read = true on the recipient's
\* unread rows, soft-deleted or not, on no row of another recipient, and
\* changes nothing when the recipient has no unread row
C21_AllUnreadOfRecipient ==
  [][resp'.fn = "markAllAsRead" =>
       LET target == UnreadOf(notifications, resp'.caller)
       IN /\ notifications' = ReadSetOn(notifications, target)
          /\ target = {} => notifications' = notifications]_vars

\* the last call was markAsRead or deleteNotification on a row of the table
LastOnRow(fn) == resp.fn = fn /\ resp.id \in 1..Len(notifications)

\* C22: markAsRead and deleteNotification change a notification only when the
\* caller is its recipient: called by any other principal they fail
\* (not found or forbidden) and leave the row as it was; markAsRead on a
\* notification of the caller that is already read succeeds and changes
\* nothing.
C22_OnlyRecipientChanges ==
  [][LastOnRow("markAsRead")' \/ LastOnRow("deleteNotification")' =>
       LET row == notifications[resp'.id]
       IN /\ row.user_id # resp'.caller
               => resp'.error # NULL /\ notifications' = notifications
          /\ row.user_id = resp'.caller /\ row.read /\ resp'.fn = "markAsRead"
               => resp'.error = NULL /\ notifications' = notifications]_vars

\* what the hook does keep: a call by another principal changes nothing, a
\* call by the recipient changes the read flag or the delete timestamp of
\* that row alone, and no call is answered with an error
C22_RowOfOthersUnchanged ==
  [][LastOnRow("markAsRead")' \/ LastOnRow("deleteNotification")' =>
       LET row == notifications[resp'.id]
           new == IF resp'.fn = "markAsRead" THEN [row EXCEPT !.read = TRUE]
                  ELSE [row EXCEPT !.deleted_at = "set"]
       IN /\ resp'.error = NULL
          /\ notifications' =
               IF row.user_id = resp'.caller
               THEN [notifications EXCEPT ![resp'.id] = new]
               ELSE notifications]_vars

\* C25: in a dispatch the e-mail of a recipient comes after the recipient's
\* notification row was persisted: the e-mail sender is never called for a
\* recipient for whom the call has not persisted a row.
C25_PersistBeforeEmail ==
  resp.fn \in {"notify", "processNotificationRequest"} =>
    resp.emailed \subseteq NewRecipients

\* the handlers that insert one row keep the order: they return or throw
\* when the insert fails and call the e-mail sender only after it succeeded
C25_SingleRecipientHandlers ==
  /\ resp.fn \in {"notify", "processNotificationRequest"}
  /\ ~LastIsComment("notify")
  => resp.emailed \subseteq NewRecipients

\* ------------------------------------------------ project properties
\* a text that is neither empty nor blanks only
NonBlank(s) == Trim(s) # <<>>

\* C23: every project row that exists after any sequence of saves made
\* through the application (saveProject, the Projects form, the Save Project
\* dialog) has a non-empty name and a non-empty description, and a save that
\* is refused as invalid writes nothing.
C23_NameAndDescriptionRequired ==
  [][/\ \A r \in projects' : NonBlank(r.name) /\ NonBlank(r.description)
     /\ last'.outcome = "invalid" => projects' = projects]_vars

\* what every save path does keep: no row has an empty or blank name, and a
\* refused save writes nothing
C23_NameRequired ==
  [][/\ \A r \in projects' : NonBlank(r.name)
     /\ last'.outcome = "invalid" => projects' = projects]_vars

\* C24: the owner of a project never changes after its creation: no step
\* changes the user_id of a project, whoever saves it, a principal holding an
\* 'edit' grant included.
C24_OwnerNeverChanges ==
  [][\A r \in projects, s \in projects' :
       r.id = s.id => s.user_id = r.user_id]_vars

\* saveProject of projectService.ts and the other handlers keep the owner
C24_OwnerKeptByService ==
  [][last'.op # "saveProjectData" =>
       \A r \in projects, s \in projects' :
         r.id = s.id => s.user_id = r.user_id]_vars

\* principal u can read project row r: the row comes back from getProjectById
\* and the listing holds it
CanRead(u, r) ==
  \/ getProjectById(u, r.id) # {}
  \/ \E e \in getAllAccessibleProjects(u) : e.project = r

\* principal u can write project row r: an UPDATE by u that keeps the row's
\* owner is admitted
CanWrite(u, r) == ProjectsUpdate(u, r, r)

\* the last call was the owner's removeProjectAccess, it removed the row of
\* g on project row r, and g is not the owner of r
RemovedGrantOf(g, r) ==
  /\ LastIsRemove /\ last.outcome = "ok" /\ last.n = 1
  /\ last.project = r.id /\ LookupUser(last.contact) = {g}
  /\ g # r.user_id

\* C26 as stated: once removeProjectAccess has removed a grant, the former
\* grantee is denied read and write on the project.
C26_DeniedAfterRemoval ==
  \A r \in projects, g \in Principals :
    RemovedGrantOf(g, r) => ~CanRead(g, r) /\ ~CanWrite(g, r)

\* the last call was a write attempt on a project
LastIsWrite ==
  last.op \in {"saveProject", "updateProjectTools", "setProjectPublic"}

\* C26 amended: every decision is taken on the current rows of
\* project_access. In every state a principal that is not the owner and has
\* no row on a project cannot write it and can read it only if it is public,
\* and one whose row says 'view' cannot write it; so after
\* removeProjectAccess the former grantee is denied write, and read unless
\* the project is public, and a write attempted by a principal without the
\* owner's or an 'edit' right at that moment changes nothing.
C26_DecidedOnCurrentGrants ==
  [][/\ \A r \in projects', u \in Principals :
          LET rows == RowsIn(project_access', r.id, u)
          IN u # r.user_id =>
               /\ rows = {} => /\ ~CanWrite(u, r)'
                               /\ r.is_public # "true" => ~CanRead(u, r)'
               /\ (\A a \in rows : a.access_level = "view") => ~CanWrite(u, r)'
     /\ (last' # last /\ LastIsWrite' /\ ProjectExists(last'.project)
           /\ ~MayWrite(last'.caller, last'.project))
        => projects' = projects /\ last'.outcome # "ok"]_vars

\* C26 witness: the owner has removed the grant of another principal on a
\* project that is not public, and that principal can no longer read it
C26_Witness ==
  \E r \in projects, g \in Principals :
    /\ RemovedGrantOf(g, r) /\ r.is_public # "true"
    /\ RowsFor(r.id, g) = {}
    /\ ~CanRead(g, r) /\ ~CanWrite(g, r)

\* ---- dispatch on sharing ----

\* the project_access rows a step creates (rows whose id was not in the table)
CreatedGrants == {a \in project_access' : \A b \in project_access : b.id # a.id}

\* the requests of the step's call that announce the row a as shared
SharedEventsFor(a) ==
  {i \in 1..Len(last'.posted) :
     /\ last'.posted[i].type = project_shared
     /\ last'.posted[i].userId = a.user_id
     /\ last'.posted[i].projectId = a.project_id}

C27_LevelUpdated ==
  LastIsAdd /\ last.outcome = "ok" /\ last.updated /\ last.n = 1

\* ---- the order of the access levels ----

\* the levels a check can be asked for: the ones the checks name and two
\* that none of them names
RequiredLevels == {"view", "edit", "admin", "viewer", "editor", "write", "owner"}

\* a call of user_has_project_access grants when it returns true
Granted(res) == ~res.raised /\ res.returned

\* write implies read in each form of the check
WriteImpliesRead ==
  \A u \in Principals :
    /\ \A p \in ProjectIds :
         /\ has_project_access(p, u, "admin")
              => has_project_access(p, u, "edit")
         /\ has_project_access(p, u, "edit")
              => has_project_access(p, u, "view")
         /\ Granted(user_has_project_access(p, u, "admin"))
              => Granted(user_has_project_access(p, u, "editor"))
         /\ Granted(user_has_project_access(p, u, "editor"))
              => Granted(user_has_project_access(p, u, "viewer"))
    /\ \A r \in projects : ProjectsUpdate(u, r, r) => ProjectsSelect(u, r)

\* C28 as stated: in has_project_access, user_has_project_access and the
\* policies of projects, whoever may write may read, and a check asked for a
\* level it does not name grants nobody
C28_MonotoneAndFailClosed ==
  /\ WriteImpliesRead
  /\ \A u \in Principals, p \in ProjectIds :
       /\ \A lv \in RequiredLevels \ {"view", "edit", "admin"} :
            ~has_project_access(p, u, lv)
       /\ \A lv \in RequiredLevels \ {"viewer", "editor", "admin"} :
            ~Granted(user_has_project_access(p, u, lv))

\* C28: whoever may write may read, and a check asked for a level it does
\* not name grants nobody but the owner of the project, whom
\* has_project_access lets through before it looks at the level
C28_MonotoneAndFailClosedForOthers ==
  /\ WriteImpliesRead
  /\ \A u \in Principals, p \in ProjectIds :
       /\ \A lv \in RequiredLevels \ {"view", "edit", "admin"} :
            has_project_access(p, u, lv) <=> IsOwner(u, p)
       /\ \A lv \in RequiredLevels \ {"viewer", "editor", "admin"} :
            ~Granted(user_has_project_access(p, u, lv))

\* a grantee with level edit passes the edit and the view check and is
\* refused on a level the check does not name
C28_Witness ==
  \E r \in projects : \E a \in project_access :
    /\ a.project_id = r.id /\ a.user_id # r.user_id /\ a.access_level = "edit"
    /\ has_project_access(r.id, a.user_id, "edit")
    /\ has_project_access(r.id, a.user_id, "view")
    /\ ~has_project_access(r.id, a.user_id, "write")
    /\ ProjectsUpdate(a.user_id, r, r) /\ ProjectsSelect(a.user_id, r)

\* ---- the sharing dialog of the Projects page ----

\* the projects on the page and the calls it may be awaiting at once
NumPageProjects == 2
MaxRequests == 2
PageProjects == 1..NumPageProjects

\* the signed-in user of the page, and the contacts typed into the form
PageUser == 1
PageContacts == {UsernameOf(2), 100}

\* an awaited call: the function, the project id its handler read from
\* selectedProjectForSharing when it was started, and its arguments
Request(call, p, contact, level, accessId) ==
  [call |-> call, project |-> p, contact |-> contact, level |-> level,
   accessId |-> accessId]

\* the sequence without its i-th element
Without(seq, i) == SubSeq(seq, 1, i - 1) \o SubSeq(seq, i + 1, Len(seq))

\* fetchProjectAccess(projectId) up to its await
fetchProjectAccess(p) == Request("getProjectAccess", p, 0, NULL, << >>)

\* openSharingDialog(project), clicked on a card (the open dialog is modal
\* and covers the cards); a project of another user only raises a toast
openSharingDialog_click(p) ==
  /\ ~isSharingDialogOpen
  /\ Len(requests) < MaxRequests
  /\ openSharingDialog(PageUser, p)
  /\ selectedProjectForSharing' = p
  /\ isSharingDialogOpen' = TRUE
  /\ loadingAccess' = TRUE
  /\ requests' = Append(requests, fetchProjectAccess(p))
  /\ UNCHANGED projectAccessList
  /\ UNCHANGED <<projects, nextProjectId, project_access, last, calls>>
  /\ UNCHANGED <<notifyVars, toolVars>>

\* onOpenChange(false): the dialog is dismissed; nothing else is reset
setIsSharingDialogOpen_false ==
  /\ isSharingDialogOpen
  /\ isSharingDialogOpen' = FALSE
  /\ UNCHANGED <<selectedProjectForSharing, projectAccessList, loadingAccess,
                 requests>>
  /\ UNCHANGED <<projects, nextProjectId, project_access, last, calls>>
  /\ UNCHANGED <<notifyVars, toolVars>>

\* handleAddAccess up to its await (the submit button is disabled while
\* loadingAccess, the e-mail field is required)
handleAddAccess(contact, level) ==
  /\ isSharingDialogOpen /\ ~loadingAccess
  /\ selectedProjectForSharing # 0
  /\ Len(requests) < MaxRequests
  /\ loadingAccess' = TRUE
  /\ requests' = Append(requests,
        Request("addProjectAccess", selectedProjectForSharing, contact, level,
                << >>))
  /\ UNCHANGED <<selectedProjectForSharing, isSharingDialogOpen,
                 projectAccessList>>
  /\ UNCHANGED <<projects, nextProjectId, project_access, last, calls>>
  /\ UNCHANGED <<notifyVars, toolVars>>

\* handleAddAccess from the answer of addProjectAccess on: a thrown error is
\* toasted and ends the loading, a result starts fetchProjectAccess for the
\* project the handler was started with
handleAddAccess_resume(i) ==
  /\ i \in 1..Len(requests) /\ requests[i].call = "addProjectAccess"
  /\ LET rq == requests[i]
         found == LookupUser(rq.contact)
         g == CHOOSE x \in found : TRUE
         w == WriteAccess(PageUser, rq.project, g, rq.level,
                          ExistingAccess(PageUser, rq.project, g))
         thrown == found = {} \/ w.outcome \in {"rls", "unique"}
     IN /\ project_access' = IF found = {} THEN project_access ELSE w.rows
        /\ IF thrown
           THEN /\ requests' = Without(requests, i)
                /\ loadingAccess' = FALSE
           ELSE /\ requests' = [requests EXCEPT
                                  ![i] = fetchProjectAccess(rq.project)]
                /\ loadingAccess' = TRUE
  /\ UNCHANGED <<selectedProjectForSharing, isSharingDialogOpen,
                 projectAccessList>>
  /\ UNCHANGED <<projects, nextProjectId, last, calls>>
  /\ UNCHANGED <<notifyVars, toolVars>>

\* handleRemoveAccess(accessId) up to its await, clicked on a listed row
handleRemoveAccess(accessId) ==
  /\ isSharingDialogOpen /\ ~loadingAccess
  /\ \E a \in projectAccessList : a.id = accessId
  /\ selectedProjectForSharing # 0
  /\ Len(requests) < MaxRequests
  /\ requests' = Append(requests,
        Request("removeProjectAccess", selectedProjectForSharing, 0, NULL,
                accessId))
  /\ UNCHANGED <<selectedProjectForSharing, isSharingDialogOpen,
                 projectAccessList, loadingAccess>>
  /\ UNCHANGED <<projects, nextProjectId, project_access, last, calls>>
  /\ UNCHANGED <<notifyVars, toolVars>>

\* handleRemoveAccess from the answer of removeProjectAccess on (a delete
\* the policy filters away is no error)
handleRemoveAccess_resume(i) ==
  /\ i \in 1..Len(requests) /\ requests[i].call = "removeProjectAccess"
  /\ LET rq == requests[i]
     IN /\ project_access' =
             {a \in project_access :
                ~(a.id = rq.accessId /\ ManageAccess(PageUser, a))}
        /\ requests' = [requests EXCEPT ![i] = fetchProjectAccess(rq.project)]
  /\ loadingAccess' = TRUE
  /\ UNCHANGED <<selectedProjectForSharing, isSharingDialogOpen,
                 projectAccessList>>
  /\ UNCHANGED <<projects, nextProjectId, last, calls>>
  /\ UNCHANGED <<notifyVars, toolVars>>

\* fetchProjectAccess from the answer of getProjectAccess on: the rows
\* replace the list whatever project is selected by now; a thrown error is
\* toasted and leaves the list; loadingAccess ends either way
fetchProjectAccess_resume(i, failed) ==
  /\ i \in 1..Len(requests) /\ requests[i].call = "getProjectAccess"
  /\ projectAccessList' =
       IF failed THEN projectAccessList
       ELSE getProjectAccess(PageUser, requests[i].project)
  /\ loadingAccess' = FALSE
  /\ requests' = Without(requests, i)
  /\ UNCHANGED <<selectedProjectForSharing, isSharingDialogOpen>>
  /\ UNCHANGED <<projects, nextProjectId, project_access, last, calls>>
  /\ UNCHANGED <<notifyVars, toolVars>>

\* the page of a user who owns NumPageProjects projects, the first of them
\* shared with principal 2
PageProject(p) ==
  [id |-> p, user_id |-> PageUser, name |-> <<"a">>, description |-> <<"a">>,
   tools |-> {}, is_public |-> "false"]
InitDialog ==
  /\ InitPage /\ InitTool("prd")
  /\ projects = {PageProject(p) : p \in PageProjects}
  /\ nextProjectId = NumPageProjects + 1
  /\ project_access = GrantsOf({2})
  /\ last = Last("none", 0, 0, 0, NULL, NULL, FALSE, 0)
  /\ calls = [i \in Calls |-> NoCall]
  /\ user_notification_preferences = {}
  /\ notifications = << >>
  /\ resp = NoResp
DialogNext ==
  \/ \E p \in PageProjects : openSharingDialog_click(p)
  \/ setIsSharingDialogOpen_false
  \/ \E contact \in PageContacts, level \in AccessLevel :
       handleAddAccess(contact, level)
  \/ \E i \in 1..MaxRequests : handleAddAccess_resume(i)
  \/ \E a \in projectAccessList : handleRemoveAccess(a.id)
  \/ \E i \in 1..MaxRequests : handleRemoveAccess_resume(i)
  \/ \E i \in 1..MaxRequests, failed \in BOOLEAN :
       fetchProjectAccess_resume(i, failed)
SpecDialog == InitDialog /\ [][DialogNext]_vars

\* the dialog shows the rows of projectAccessList
ListDisplayed ==
  isSharingDialogOpen /\ ~loadingAccess /\ projectAccessList # {}

\* C29: whenever the sharing dialog shows rows, they are rows of the project
\* selected for sharing
C29_ListOfSelectedProject ==
  ListDisplayed
    => \A a \in projectAccessList : a.project_id = selectedProjectForSharing

\* C29, read for the states in which no call is awaited any more: rows of
\* another project are not left in the dialog once every answer has arrived
C29_ListOfSelectedProjectAtRest ==
  ListDisplayed /\ requests = << >>
    => \A a \in projectAccessList : a.project_id = selectedProjectForSharing

\* ---- GeneratorTools ----

\* time advances in steps of TickMs milliseconds; the delay of the simulated
\* API call (1500 ms) and of the chained second generation (2000 ms) in steps
TickMs == 500
GenerateDelay == 3
ChainDelay == 4
\* the callbacks that may be pending together
MaxTimers == 3

GeneratorTypes == {"prd", "sql", "kb"}

\* setTimeout(run, delay): a pending callback and the steps left until it is due
Timer(run, delay) == [run |-> run, left |-> delay]

\* onChange of the idea field
setIdea(text) ==
  /\ idea' = text
  /\ UNCHANGED <<generatorType, prd, sql, kb, isGenerating, timers>>
  /\ UNCHANGED <<projects, nextProjectId, project_access, last, calls>>
  /\ UNCHANGED <<notifyVars, pageVars>>

\* the timers handleGenerate starts: generatePRD / generateSQL / generateKB
\* set the flag and start the timer of the simulated call; for sql and kb
\* without a PRD, generatePRD is followed by a timer that starts the second
\* generation
StartedByGenerate ==
  IF generatorType = "prd" THEN <<Timer("setPrd", GenerateDelay)>>
  ELSE IF generatorType = "sql"
  THEN IF prd = << >>
       THEN <<Timer("setPrd", GenerateDelay), Timer("generateSQL", ChainDelay)>>
       ELSE <<Timer("setSql", GenerateDelay)>>
  ELSE IF prd = << >>
       THEN <<Timer("setPrd", GenerateDelay), Timer("generateKB", ChainDelay)>>
       ELSE <<Timer("setKb", GenerateDelay)>>

\* handleGenerate, clicked on the button (disabled while isGenerating or
\* while the idea is blank)
handleGenerate ==
  /\ ~isGenerating /\ Trim(idea) # << >>
  /\ Len(timers) + Len(StartedByGenerate) <= MaxTimers
  /\ isGenerating' = TRUE
  /\ timers' = timers \o StartedByGenerate
  /\ UNCHANGED <<generatorType, idea, prd, sql, kb>>
  /\ UNCHANGED <<projects, nextProjectId, project_access, last, calls>>
  /\ UNCHANGED <<notifyVars, pageVars>>

\* the pending callback that runs next: the first one that is due
Due == {i \in 1..Len(timers) : timers[i].left = 0}
NextDue == CHOOSE i \in Due : \A j \in Due : i <= j

\* a pending callback runs: the end of a simulated call stores the text and
\* clears the flag; the chained callback calls generateSQL or generateKB
timerFires ==
  /\ Due # {}
  /\ LET t == timers[NextDue]
         rest == SubSeq(timers, 1, NextDue - 1)
                   \o SubSeq(timers, NextDue + 1, Len(timers))
     IN /\ prd' = IF t.run = "setPrd" THEN <<"prd">> ELSE prd
        /\ sql' = IF t.run = "setSql" THEN <<"sql">> ELSE sql
        /\ kb' = IF t.run = "setKb" THEN <<"kb">> ELSE kb
        /\ isGenerating' = (t.run \in {"generateSQL", "generateKB"})
        /\ timers' =
             IF t.run = "generateSQL"
             THEN Append(rest, Timer("setSql", GenerateDelay))
             ELSE IF t.run = "generateKB"
             THEN Append(rest, Timer("setKb", GenerateDelay))
             ELSE rest
  /\ UNCHANGED <<generatorType, idea>>
  /\ UNCHANGED <<projects, nextProjectId, project_access, last, calls>>
  /\ UNCHANGED <<notifyVars, pageVars>>

\* TickMs pass; no callback is overdue
tick ==
  /\ timers # << >> /\ Due = {}
  /\ timers' = [i \in 1..Len(timers) |->
                  [timers[i] EXCEPT !.left = timers[i].left - 1]]
  /\ UNCHANGED <<generatorType, idea, prd, sql, kb, isGenerating>>
  /\ UNCHANGED <<projects, nextProjectId, project_access, last, calls>>
  /\ UNCHANGED <<notifyVars, pageVars>>

InitGenerate ==
  /\ InitPage
  /\ \E type \in GeneratorTypes : InitTool(type)
  /\ projects = {}
  /\ nextProjectId = 1
  /\ project_access = {}
  /\ last = Last("none", 0, 0, 0, NULL, NULL, FALSE, 0)
  /\ calls = [i \in Calls |-> NoCall]
  /\ user_notification_preferences = {}
  /\ notifications = << >>
  /\ resp = NoResp
GenerateNext ==
  \/ \E text \in FieldInputs : setIdea(text)
  \/ handleGenerate
  \/ timerFires
  \/ tick
SpecGenerate == InitGenerate /\ [][GenerateNext]_vars

\* the pending callbacks that end a simulated call
GenerationTimers ==
  {i \in 1..Len(timers) : timers[i].run \in {"setPrd", "setSql", "setKb"}}

\* C30: while a callback of a generation is pending, isGenerating is true (so
\* the button is disabled and handleGenerate cannot start), and no two
\* callbacks that end a simulated call are pending together
C30_OneGenerationInFlight ==
  /\ timers # << >> => isGenerating
  /\ Cardinality(GenerationTimers) <= 1

\* C30 for the component of type prd, whose generations take one timer
C30_OneGenerationInFlightForPrd ==
  generatorType = "prd"
    => /\ timers # << >> => isGenerating
       /\ Cardinality(GenerationTimers) <= 1

====
